---- MODULE Spec2Model ----
(***************************************************************************)
(* Transactions of src/src/transaction.rs: the two constructors            *)
(* (new_coinbase, new_utxo), the per-input signing and verification        *)
(* scheme (sign, verify, trim_copy, hash) and the output lock.             *)
(*                                                                         *)
(* Byte strings (Vec<u8>) are sequences of integers, String ids are TLA+   *)
(* strings.  The two cryptographic primitives of external crates are       *)
(* idealised: the digest is collision free (the rendering of the encoded   *)
(* value), and a signature is valid for exactly one (message, key pair).   *)
(***************************************************************************)
EXTENDS Integers, Sequences, FiniteSets, TLC

\* ----------------------------------------------------------------- bounds

\* Largest number of inputs of a transaction taken from storage or the wire.
MaxInputs == 2
\* Amounts requested from new_utxo range over 0..MaxAmount.
MaxAmount == 2
\* Totals reported by the coin selector range over 0..MaxTotal.
MaxTotal == 3

\* ------------------------------------------------------ program constants

SUBSIDY == 10

\* ------------------------------------------------------------- key custody

\* Secret keys of the wallets.
Keys == {1, 2}

\* The public key of a secret key (wallet.public_key for wallet.secret_key).
Pub(sk) == <<10 + sk>>

\* hash_pub_key: the public-key-hash of a public key.
HashPubKey(pk) == <<100 + pk[1]>>

\* ------------------------------------------------------- address encoding

Checksum(b) == (b % 7) + 1

\* An address string: its body byte followed by a checksum.
AddressEncode(pkh) == <<pkh[1], Checksum(pkh[1])>>

\* Address::decode(address): the Result; Ok carries the body.
AddressDecode(address) ==
    IF Len(address) = 2 /\ address[2] = Checksum(address[1])
    THEN [ok |-> TRUE, body |-> <<address[1]>>]
    ELSE [ok |-> FALSE, body |-> <<>>]

\* wallet.get_address()
GetAddress(sk) == AddressEncode(HashPubKey(Pub(sk)))

MalformedAddress == <<111, 0>>

Addresses == {GetAddress(k) : k \in Keys} \cup {MalformedAddress}

\* ------------------------------------------------------------- signatures

\* ed25519::signature(message, private_key): deterministic.
Ed25519Signature(message, sk) == <<message, sk>>

\* ed25519::verify(message, public_key, signature)
Ed25519Verify(message, pk, sig) ==
    \E k \in Keys : Pub(k) = pk /\ sig = Ed25519Signature(message, k)

\* Signature bytes of full length that no key pair produced.
BadSig == <<"", 0>>

\* ------------------------------------------------------------ transactions

TXInput(txid, vout, signature, pub_key) ==
    [txid |-> txid, vout |-> vout, signature |-> signature, pub_key |-> pub_key]

Transaction(id, vin, vout) == [id |-> id, vin |-> vin, vout |-> vout]

\* bincode's encoding of a Vec: its length, then its elements.
SerializeVec(v) == <<Len(v)>> \o v

\* bincode::serialize(&tx): field order id, vin, vout.
Serialize(t) == <<t.id, SerializeVec(t.vin), SerializeVec(t.vout)>>

\* Transaction::hash: the digest (hex string) of the encoding of the clone
\* with id cleared; distinct encodings have distinct digests.
Hash(t) == ToString(Serialize([t EXCEPT !.id = ""]))

\* Mutant: the sentinel output index is taken to be 0.
IsCoinbaseIndexZero(t) ==
    Len(t.vin) = 1 /\ t.vin[1].txid = "" /\ t.vin[1].vout = 0

\* Transaction::is_coinbase
IsCoinbase(t) ==
    Len(t.vin) = 1 /\ t.vin[1].txid = "" /\ t.vin[1].vout = -1

\* Mutant: the trimmed copy leaves the output values out.
TrimCopyNoValues(t) ==
    Transaction(t.id,
        [i \in 1..Len(t.vin) |->
            TXInput(t.vin[i].txid, t.vin[i].vout, <<>>, <<>>)],
        [i \in 1..Len(t.vout) |->
            [value |-> 0, pub_key_hash |-> t.vout[i].pub_key_hash]])

\* Transaction::trim_copy
TrimCopy(t) ==
    Transaction(t.id,
        [i \in 1..Len(t.vin) |->
            TXInput(t.vin[i].txid, t.vin[i].vout, <<>>, <<>>)],
        [i \in 1..Len(t.vout) |->
            [value |-> t.vout[i].value, pub_key_hash |-> t.vout[i].pub_key_hash]])

\* ------------------------------------------------------------ output lock

\* TXOutput::lock: Address::decode(address).unwrap() aborts on a malformed
\* address; otherwise the body becomes the lock and Ok(()) is returned.
Lock(txo, address) ==
    LET decoded == AddressDecode(address)
    IN  IF decoded.ok
        THEN [res |-> "Ok", out |-> [txo EXCEPT !.pub_key_hash = decoded.body]]
        ELSE [res |-> "Panic", out |-> txo]

\* TXOutput::new
TXOutputNew(value, address) ==
    Lock([value |-> value, pub_key_hash |-> <<>>], address)

\* ------------------------------------------------- previous transactions

\* prev_txs.get(&txid).unwrap() succeeds and the output index vout (cast to
\* usize) is within prev_tx.vout.
HasOutput(prev, txid, vout) ==
    /\ txid \in DOMAIN prev
    /\ vout >= 0
    /\ vout < Len(prev[txid].vout)

\* prev_tx.vout[vout as usize].pub_key_hash
PrevLock(prev, txid, vout) == prev[txid].vout[vout + 1].pub_key_hash

\* Mutant: only the first input's previous transaction is checked.
CheckPrevTxsFirstOnly(vin, i, prev) ==
    IF Len(vin) = 0 THEN "Ok"
    ELSE IF vin[1].txid \notin DOMAIN prev THEN "Panic"
    ELSE IF prev[vin[1].txid].id = "" THEN "Err"
    ELSE "Ok"

\* The loop that opens sign and verify: every input's previous transaction
\* is looked up (unwrap: a missing key aborts) and must have a non-empty id.
RECURSIVE CheckPrevTxs(_, _, _)
CheckPrevTxs(vin, i, prev) ==
    IF i > Len(vin) THEN "Ok"
    ELSE IF vin[i].txid \notin DOMAIN prev THEN "Panic"
    ELSE IF prev[vin[i].txid].id = "" THEN "Err"
    ELSE CheckPrevTxs(vin, i + 1, prev)

\* ---------------------------------------------------------------- sighash

\* tx_copy.vin[in_id].signature.clear(); tx_copy.vin[in_id].pub_key = lock
SubstituteLock(copy, in_id, lock) ==
    [copy EXCEPT !.vin[in_id].signature = <<>>, !.vin[in_id].pub_key = lock]

\* tx_copy.id = tx_copy.hash()?
SetId(copy) == [copy EXCEPT !.id = Hash(copy)]

\* Mutant: the substituted lock is left in the copy.
ResetKeySkipped(copy, in_id) == copy

\* tx_copy.vin[in_id].pub_key = Vec::new()
ResetKey(copy, in_id) == [copy EXCEPT !.vin[in_id].pub_key = <<>>]

\* ------------------------------------------------------------------- sign

\* Mutant: every signature is stored into the first input.
StoreSignatureFirst(self, in_id, sig) == [self EXCEPT !.vin[1].signature = sig]

\* Mutant: the signed message is also written to the transaction's own id.
StoreSignatureAndId(self, in_id, sig) ==
    [self EXCEPT !.vin[in_id].signature = sig, !.id = sig[1]]

\* self.vin[in_id].signature = signature.to_vec()
StoreSignature(self, in_id, sig) == [self EXCEPT !.vin[in_id].signature = sig]

\* The per-input loop of sign.  msgs collects the messages signed.
RECURSIVE SignLoop(_, _, _, _, _, _)
SignLoop(self, copy, in_id, private_key, prev, msgs) ==
    IF in_id > Len(copy.vin)
    THEN [res |-> "Ok", tx |-> self, msgs |-> msgs]
    ELSE IF ~HasOutput(prev, copy.vin[in_id].txid, copy.vin[in_id].vout)
    THEN [res |-> "Panic", tx |-> self, msgs |-> msgs]
    ELSE LET lock == PrevLock(prev, copy.vin[in_id].txid, copy.vin[in_id].vout)
             hashed == SetId(SubstituteLock(copy, in_id, lock))
             sig == Ed25519Signature(hashed.id, private_key)
         IN  SignLoop(StoreSignature(self, in_id, sig), ResetKey(hashed, in_id),
                      in_id + 1, private_key, prev, Append(msgs, hashed.id))

\* Transaction::sign.  tx is self after the call, also when it aborted.
Sign(self, private_key, prev) ==
    IF IsCoinbase(self)
    THEN [res |-> "Ok", tx |-> self, msgs |-> <<>>]
    ELSE LET checked == CheckPrevTxs(self.vin, 1, prev)
         IN  IF checked # "Ok"
             THEN [res |-> checked, tx |-> self, msgs |-> <<>>]
             ELSE SignLoop(self, TrimCopy(self), 1, private_key, prev, <<>>)

\* ----------------------------------------------------------------- verify

\* Mutant: an input is accepted only if its declared key hashes to the lock
\* of the output it spends.
RECURSIVE VerifyLoopLockChecked(_, _, _, _, _)
VerifyLoopLockChecked(self, copy, in_id, prev, msgs) ==
    IF in_id > Len(self.vin)
    THEN [res |-> "OkTrue", msgs |-> msgs]
    ELSE IF ~HasOutput(prev, self.vin[in_id].txid, self.vin[in_id].vout)
    THEN [res |-> "Panic", msgs |-> msgs]
    ELSE LET lock == PrevLock(prev, self.vin[in_id].txid, self.vin[in_id].vout)
             hashed == SetId(SubstituteLock(copy, in_id, lock))
         IN  IF \/ HashPubKey(self.vin[in_id].pub_key) # lock
                \/ ~Ed25519Verify(hashed.id, self.vin[in_id].pub_key,
                                  self.vin[in_id].signature)
             THEN [res |-> "OkFalse", msgs |-> Append(msgs, hashed.id)]
             ELSE VerifyLoopLockChecked(self, ResetKey(hashed, in_id), in_id + 1,
                                        prev, Append(msgs, hashed.id))

\* The per-input loop of verify.  msgs collects the messages checked.
RECURSIVE VerifyLoop(_, _, _, _, _)
VerifyLoop(self, copy, in_id, prev, msgs) ==
    IF in_id > Len(self.vin)
    THEN [res |-> "OkTrue", msgs |-> msgs]
    ELSE IF ~HasOutput(prev, self.vin[in_id].txid, self.vin[in_id].vout)
    THEN [res |-> "Panic", msgs |-> msgs]
    ELSE LET lock == PrevLock(prev, self.vin[in_id].txid, self.vin[in_id].vout)
             hashed == SetId(SubstituteLock(copy, in_id, lock))
         IN  IF ~Ed25519Verify(hashed.id, self.vin[in_id].pub_key,
                               self.vin[in_id].signature)
             THEN [res |-> "OkFalse", msgs |-> Append(msgs, hashed.id)]
             ELSE VerifyLoop(self, ResetKey(hashed, in_id), in_id + 1, prev,
                             Append(msgs, hashed.id))

\* Transaction::verify
Verify(self, prev) ==
    IF IsCoinbase(self)
    THEN [res |-> "OkTrue", msgs |-> <<>>]
    ELSE LET checked == CheckPrevTxs(self.vin, 1, prev)
         IN  IF checked # "Ok"
             THEN [res |-> checked, msgs |-> <<>>]
             ELSE VerifyLoop(self, TrimCopy(self), 1, prev, <<>>)

\* ----------------------------------------------------------- constructors

\* format!("Reward to '{}'", to).as_bytes()
RewardNote(to) == <<82>> \o to

\* Transaction::new_coinbase.  data is the note (bytes); entropy is what
\* OsRng fills the key with when the note is empty, else the key stays zero.
NewCoinbase(to, data, entropy) ==
    LET key == IF data = <<>> THEN <<entropy>> ELSE <<0>>
        note == IF data = <<>> THEN RewardNote(to) ELSE data
        pub_key == note \o key
        out == TXOutputNew(SUBSIDY, to)
        unhashed == Transaction("", <<TXInput("", -1, <<>>, pub_key)>>, <<out.out>>)
    IN  IF out.res = "Panic"
        THEN [res |-> "Panic", tx |-> <<>>]
        ELSE [res |-> "Ok", tx |-> <<SetId(unhashed)>>]

\* Mutant: only the first selected output of each transaction becomes an input.
InputsOfFirst(txid, outs, i, pub_key) ==
    IF i > Len(outs) THEN <<>> ELSE <<TXInput(txid, outs[i], <<>>, pub_key)>>

\* The inputs new_utxo pushes for one selected transaction id (inner loop).
RECURSIVE InputsOf(_, _, _, _)
InputsOf(txid, outs, i, pub_key) ==
    IF i > Len(outs) THEN <<>>
    ELSE <<TXInput(txid, outs[i], <<>>, pub_key)>>
         \o InputsOf(txid, outs, i + 1, pub_key)

\* The inputs new_utxo builds from the selection (outer loop); order is the
\* order in which the HashMap yields its keys.
RECURSIVE BuildInputs(_, _, _, _)
BuildInputs(order, selected, i, pub_key) ==
    IF i > Len(order) THEN <<>>
    ELSE InputsOf(order[i], selected[order[i]], 1, pub_key)
         \o BuildInputs(order, selected, i + 1, pub_key)

\* utxo.blockchain.sign_transacton(&mut tx, &wallet.secret_key): resolves the
\* previous transactions and signs.
SignTransaction(t, private_key, prev) == Sign(t, private_key, prev)

\* Mutant: the balance is compared only after the outputs were built.
NewUTXOLateCheck(sk, to, amount, acc_v, order, prev) ==
    LET s0 == <<"hash_pub_key", "find_spendable_outputs">>
        payment == TXOutputNew(amount, to)
    IN  IF payment.res = "Panic"
        THEN [res |-> "Panic", tx |-> <<>>, steps |-> s0 \o <<"decode">>]
        ELSE [res |-> "ErrNotEnoughBalance", tx |-> <<>>,
              steps |-> s0 \o <<"decode">>]

\* Transaction::new_utxo for the wallet with secret key sk, given the coin
\* selector's answer acc_v = [total, outs].  steps lists the fallible and
\* external steps the call went through.
NewUTXO(sk, to, amount, acc_v, order, prev) ==
    LET s0 == <<"hash_pub_key", "find_spendable_outputs">>
        vin == BuildInputs(order, acc_v.outs, 1, Pub(sk))
        payment == TXOutputNew(amount, to)
        change == TXOutputNew(acc_v.total - amount, GetAddress(sk))
        hasChange == acc_v.total > amount
        s1 == s0 \o <<"decode">>
        s2 == IF hasChange THEN s1 \o <<"decode">> ELSE s1
        vout == IF hasChange THEN <<payment.out, change.out>> ELSE <<payment.out>>
        hashed == SetId(Transaction("", vin, vout))
        signed == SignTransaction(hashed, sk, prev)
    IN  IF acc_v.total < amount
        THEN [res |-> "ErrNotEnoughBalance", tx |-> <<>>, steps |-> s0]
        ELSE IF payment.res = "Panic"
        THEN [res |-> "Panic", tx |-> <<>>, steps |-> s1]
        ELSE IF hasChange /\ change.res = "Panic"
        THEN [res |-> "Panic", tx |-> <<>>, steps |-> s2]
        ELSE IF signed.res # "Ok"
        THEN [res |-> signed.res, tx |-> <<>>, steps |-> s2 \o <<"hash", "sign">>]
        ELSE [res |-> "Ok", tx |-> <<signed.tx>>, steps |-> s2 \o <<"hash", "sign">>]

\* ------------------------------------------------------------ environment

TxIds == {"T0", "T1"}

\* The "not found" answer of the previous-transaction lookup.
Sentinel == Transaction("", <<>>, <<>>)

\* The transactions of the chain that inputs may reference.
ChainTx(txid) ==
    IF txid = "T0"
    THEN Transaction("T0", <<TXInput("", -1, <<>>, <<116, 0>>)>>,
             <<[value |-> 2, pub_key_hash |-> HashPubKey(Pub(1))],
               [value |-> 1, pub_key_hash |-> <<>>]>>)
    ELSE Transaction("T1", <<TXInput("", -1, <<>>, <<116, 0>>)>>,
             <<[value |-> 1, pub_key_hash |-> HashPubKey(Pub(2))]>>)

\* The maps a caller may hand to sign and verify: a transaction id is
\* absent, maps to the sentinel, or maps to the chain's transaction.
Resolvers ==
    UNION {{f \in [D -> {Sentinel, ChainTx("T0"), ChainTx("T1")}] :
              \A t \in D : f[t] \in {Sentinel, ChainTx(t)}} : D \in SUBSET TxIds}

\* (prev_txid, prev_vout) pairs of inputs.
Refs == {<<"", -1>>, <<"T0", 0>>, <<"T0", 1>>, <<"T1", 0>>, <<"T1", 1>>}

Locks == {HashPubKey(Pub(k)) : k \in Keys} \cup {<<>>}

ReceivedVouts ==
    {<<[value |-> 1, pub_key_hash |-> HashPubKey(Pub(2))]>>,
     <<[value |-> 2, pub_key_hash |-> HashPubKey(Pub(1))],
       [value |-> 1, pub_key_hash |-> <<>>]>>}

\* Unsigned transaction values read from storage or the wire (Transaction
\* derives Deserialize and its fields are public).
ReceivedVins == UNION {[1..n -> Refs] : n \in 0..MaxInputs}

\* A received transaction: its id is the hash of its unsigned form, every
\* input declares the key pub_key and carries signature bytes sig.
ReceivedTx(refs, pub_key, sig, vout) ==
    LET unsigned == Transaction("",
            [i \in DOMAIN refs |-> TXInput(refs[i][1], refs[i][2], <<>>, pub_key)],
            vout)
    IN  [unsigned EXCEPT
            !.id = Hash(unsigned),
            !.vin = [i \in DOMAIN refs |-> [unsigned.vin[i] EXCEPT !.signature = sig]]]

ReceivedTxs ==
    {ReceivedTx(refs, Pub(k), sig, vout) :
       refs \in ReceivedVins, k \in Keys, sig \in {<<>>, BadSig},
       vout \in ReceivedVouts}

\* utxo.find_spendable_outputs(&pub_key_hash, amount): the answers the
\* external coin selector may give, (available total, txid -> output indices).
Selections ==
    {<<>>, "T0" :> <<0>>, "T0" :> <<0, 1>>, "T1" :> <<1>>,
     ("T0" :> <<0>>) @@ ("T1" :> <<0>>)}

FindSpendableOutputs(pub_key_hash, amount) ==
    {acc \in [total : 0..MaxTotal, outs : Selections] :
        DOMAIN acc.outs = {} => acc.total = 0}

\* The orders in which a HashMap with key set S may be iterated.
Orders(S) ==
    {o \in [1..Cardinality(S) -> S] : \A i, j \in DOMAIN o : i # j => o[i] # o[j]}

\* ---------------------------------------------------------- state machine

VARIABLES
    tx,         \* the transaction value the caller holds: <<>> or <<t>>
    prev_txs,   \* the previous-transaction map handed to sign and verify
    last,       \* the last call: its name, its result, what it was given
    signedBy,   \* the key whose sign call produced tx's signatures, else 0
    tampered    \* a field of tx was overwritten since tx was obtained

vars == <<tx, prev_txs, last, signedBy, tampered>>

\* An abort (panic) ends the process.
Alive == last.res # "Panic"

\* The caller holds no transaction yet.
Fresh == Alive /\ last.op = "init"

Init ==
    /\ tx = <<>>
    /\ prev_txs \in Resolvers
    /\ last = [op |-> "init", res |-> "Ok"]
    /\ signedBy = 0
    /\ tampered = FALSE

CallNewCoinbase ==
    /\ Fresh
    /\ \E to \in Addresses, data \in {<<>>, <<116>>}, entropy \in {1, 2} :
         LET r == NewCoinbase(to, data, entropy)
         IN  /\ tx' = r.tx
             /\ last' = [op |-> "new_coinbase", res |-> r.res, to |-> to]
    /\ signedBy' = 0
    /\ tampered' = FALSE
    /\ UNCHANGED prev_txs

CallNewUTXO ==
    /\ Fresh
    /\ \E sk \in Keys, to \in Addresses, amount \in 0..MaxAmount :
         \E acc_v \in FindSpendableOutputs(HashPubKey(Pub(sk)), amount) :
           \E order \in Orders(DOMAIN acc_v.outs) :
             LET r == NewUTXO(sk, to, amount, acc_v, order, prev_txs)
             IN  /\ tx' = r.tx
                 /\ last' = [op |-> "new_utxo", res |-> r.res, steps |-> r.steps,
                             sk |-> sk, to |-> to, amount |-> amount,
                             acc_v |-> acc_v]
                 /\ signedBy' = IF r.res = "Ok" THEN sk ELSE 0
    /\ tampered' = FALSE
    /\ UNCHANGED prev_txs

Receive ==
    /\ Fresh
    /\ \E t \in ReceivedTxs : tx' = <<t>>
    /\ last' = [op |-> "receive", res |-> "Ok"]
    /\ signedBy' = 0
    /\ tampered' = FALSE
    /\ UNCHANGED prev_txs

CallSign ==
    /\ Alive
    /\ tx # <<>>
    /\ \E sk \in Keys :
         LET r == Sign(tx[1], sk, prev_txs)
         IN  /\ tx' = <<r.tx>>
             /\ last' = [op |-> "sign", res |-> r.res, sk |-> sk, msgs |-> r.msgs]
             /\ signedBy' = IF r.res = "Ok" /\ ~IsCoinbase(tx[1]) THEN sk ELSE 0
    /\ UNCHANGED <<prev_txs, tampered>>

CallVerify ==
    /\ Alive
    /\ tx # <<>>
    /\ LET r == Verify(tx[1], prev_txs)
       IN  last' = [op |-> "verify", res |-> r.res, msgs |-> r.msgs,
                    after |-> IF last.op = "tamper" /\ last.verified
                              THEN last.what ELSE "none"]
    /\ UNCHANGED <<tx, prev_txs, signedBy, tampered>>

\* Overwrites of public fields of the held transaction.
Tamper(t, what) ==
    /\ Alive
    /\ ~tampered
    /\ tx' = <<t>>
    /\ t # tx[1]
    /\ last' = [op |-> "tamper", res |-> "Ok", what |-> what,
                verified |-> last.op = "verify" /\ last.res = "OkTrue"]
    /\ signedBy' = 0
    /\ tampered' = TRUE
    /\ UNCHANGED prev_txs

TamperValue ==
    /\ tx # <<>>
    /\ \E i \in DOMAIN tx[1].vout, d \in {-1, 1} :
         Tamper([tx[1] EXCEPT !.vout[i].value = @ + d], "value")

TamperLock ==
    /\ tx # <<>>
    /\ \E i \in DOMAIN tx[1].vout, l \in Locks :
         Tamper([tx[1] EXCEPT !.vout[i].pub_key_hash = l], "lock")

\* Same-length replacements of a signature: bytes no key produced, the
\* signature of another input, another key's signature of the same message.
OtherSignatures(t, i) ==
    {BadSig} \cup {t.vin[j].signature : j \in DOMAIN t.vin}
    \cup {<<t.vin[i].signature[1], k>> : k \in Keys}

TamperSignature ==
    /\ tx # <<>>
    /\ \E i \in DOMAIN tx[1].vin :
         /\ tx[1].vin[i].signature # <<>>
         /\ \E s \in OtherSignatures(tx[1], i) :
              Tamper([tx[1] EXCEPT !.vin[i].signature = s], "signature")

Next ==
    \/ CallNewCoinbase
    \/ CallNewUTXO
    \/ Receive
    \/ CallSign
    \/ CallVerify
    \/ TamperValue
    \/ TamperLock
    \/ TamperSignature

Spec == Init /\ [][Next]_vars

\* ----------------------------------------------------------------- claims

Held == tx[1]

\* Input i's previous transaction is in the map and has a non-empty id, and
\* prev_vout is an index of its outputs.
Resolves(t, i, prev) ==
    /\ HasOutput(prev, t.vin[i].txid, t.vin[i].vout)
    /\ prev[t.vin[i].txid].id # ""

AllResolve(t, prev) == \A i \in DOMAIN t.vin : Resolves(t, i, prev)

\* Every input declares the public key of secret key sk.
DeclaredBy(t, sk) == \A i \in DOMAIN t.vin : t.vin[i].pub_key = Pub(sk)

\* The lock of the output input i spends.
SpentLock(t, i, prev) == PrevLock(prev, t.vin[i].txid, t.vin[i].vout)

\* Exactly one input, with empty prev_txid and prev_vout = -1.
CoinbaseShape(t) ==
    /\ Len(t.vin) = 1
    /\ t.vin[1].txid = ""
    /\ t.vin[1].vout = -1

\* C1: a non-coinbase transaction with at least one input, all of whose
\* previous transactions resolve, is signed successfully, and once signed
\* with the key its inputs declare it verifies true under the same map; a
\* transaction returned by new_utxo verifies true.
SignVerifyRoundTrip ==
    /\ (/\ last.op = "sign"
        /\ ~CoinbaseShape(Held)
        /\ Len(Held.vin) >= 1
        /\ AllResolve(Held, prev_txs))
       => last.res = "Ok"
    /\ (/\ last.op = "verify"
        /\ signedBy # 0
        /\ ~CoinbaseShape(Held)
        /\ Len(Held.vin) >= 1
        /\ AllResolve(Held, prev_txs)
        /\ DeclaredBy(Held, signedBy))
       => last.res = "OkTrue"
    /\ (last.op = "new_utxo" /\ last.res = "Ok")
       => Verify(Held, prev_txs).res = "OkTrue"

SignVerifyRoundTripWitness ==
    /\ last.op = "verify"
    /\ last.res = "OkTrue"
    /\ signedBy # 0
    /\ Len(Held.vin) = 2
    /\ AllResolve(Held, prev_txs)
    /\ DeclaredBy(Held, signedBy)

\* C2 (as amended): a non-coinbase transaction with at least one input that
\* verified true and then had the value or the lock of one output, or the
\* signature of one input, changed verifies false under the same map.
TamperSensitivity ==
    (/\ last.op = "verify"
     /\ last.after \in {"value", "lock", "signature"}
     /\ ~CoinbaseShape(Held)
     /\ Len(Held.vin) >= 1)
    => last.res = "OkFalse"

TamperSensitivityWitness ==
    /\ last.op = "verify"
    /\ last.after = "value"
    /\ Len(Held.vin) = 2
    /\ Len(Held.vout) = 2
    /\ last.res = "OkFalse"

\* C2 (as stated): every non-coinbase transaction that verified true and
\* then had one output's value or lock, or one input's signature, changed
\* verifies false under the same map.
TamperSensitivityAnyTransaction ==
    (/\ last.op = "verify"
     /\ last.after \in {"value", "lock", "signature"}
     /\ ~CoinbaseShape(Held))
    => last.res = "OkFalse"

\* The steps of new_utxo that build the transaction: decoding an address
\* (locking an output), hashing the transaction, signing.
BuildSteps == {"decode", "hash", "sign"}

\* C3 (as amended): when the selector's total is less than the amount,
\* new_utxo returns the not-enough-balance error and no transaction, having
\* decoded no address, hashed no transaction and signed nothing; all it did
\* was hash the spender's public key and ask the selector.
InsufficientFunds ==
    (last.op = "new_utxo" /\ last.acc_v.total < last.amount)
    => /\ last.res = "ErrNotEnoughBalance"
       /\ tx = <<>>
       /\ \A i \in DOMAIN last.steps : last.steps[i] \notin BuildSteps
       /\ last.steps = <<"hash_pub_key", "find_spendable_outputs">>

InsufficientFundsWitness ==
    /\ last.op = "new_utxo"
    /\ last.acc_v.total = 1
    /\ last.amount = 2
    /\ DOMAIN last.acc_v.outs # {}
    /\ last.to = MalformedAddress
    /\ last.res = "ErrNotEnoughBalance"

\* C3 (as stated): when the selector's total is less than the amount,
\* new_utxo returns the error and no transaction before any address is
\* decoded, any hash computed or any signing attempted.
InsufficientFundsNoHashAtAll ==
    (last.op = "new_utxo" /\ last.acc_v.total < last.amount)
    => /\ last.res = "ErrNotEnoughBalance"
       /\ tx = <<>>
       /\ \A i \in DOMAIN last.steps :
            last.steps[i] \notin BuildSteps \cup {"hash_pub_key"}

\* C7: whenever decoding the address fails while an output is locked, the
\* constructor returns the InvalidAddress failure to its caller and does not
\* abort.
MalformedAddressIsAnError ==
    /\ (last.op = "new_coinbase" /\ ~AddressDecode(last.to).ok)
       => last.res = "ErrInvalidAddress"
    /\ (/\ last.op = "new_utxo"
        /\ last.acc_v.total >= last.amount
        /\ ~AddressDecode(last.to).ok)
       => last.res = "ErrInvalidAddress"

\* The output indices, in order, of the inputs of t that spend txid.
RECURSIVE SpentOf(_, _, _)
SpentOf(t, txid, i) ==
    IF i > Len(t.vin) THEN <<>>
    ELSE (IF t.vin[i].txid = txid THEN <<t.vin[i].vout>> ELSE <<>>)
         \o SpentOf(t, txid, i + 1)

RECURSIVE SumValues(_, _)
SumValues(vout, i) ==
    IF i > Len(vout) THEN 0 ELSE vout[i].value + SumValues(vout, i + 1)

\* C8: for amount > 0 and total >= amount, the transaction new_utxo returns
\* has one input per selected pair, each declaring the spender's key; its
\* first output locks amount to the recipient; a second output exists iff
\* total > amount and locks total - amount to the spender; the values sum
\* to total and no output of value 0 is added as change.
SpendShape ==
    (/\ last.op = "new_utxo"
     /\ last.res = "Ok"
     /\ last.amount > 0
     /\ last.acc_v.total >= last.amount)
    => /\ \A i \in DOMAIN Held.vin : Held.vin[i].txid \in DOMAIN last.acc_v.outs
       /\ \A t \in DOMAIN last.acc_v.outs : SpentOf(Held, t, 1) = last.acc_v.outs[t]
       /\ DeclaredBy(Held, last.sk)
       /\ Held.vout[1] = [value |-> last.amount,
                          pub_key_hash |-> AddressDecode(last.to).body]
       /\ Len(Held.vout) = IF last.acc_v.total > last.amount THEN 2 ELSE 1
       /\ Len(Held.vout) = 2
          => Held.vout[2] = [value |-> last.acc_v.total - last.amount,
                             pub_key_hash |-> HashPubKey(Pub(last.sk))]
       /\ SumValues(Held.vout, 1) = last.acc_v.total
       /\ \A i \in DOMAIN Held.vout : Held.vout[i].value > 0

SpendShapeWitness ==
    /\ last.op = "new_utxo"
    /\ last.res = "Ok"
    /\ last.amount > 0
    /\ Len(Held.vin) = 2
    /\ Len(Held.vout) = 2
    /\ Held.vin[1].txid # Held.vin[2].txid

\* C4: a transaction returned by new_coinbase has exactly one input, with
\* empty prev_txid and prev_vout = -1; on every transaction of that shape
\* sign succeeds and changes nothing, and verify returns true, whatever the
\* input's signature and whatever the map holds.
CoinbaseIdentity ==
    [][/\ (last'.op = "new_coinbase" /\ last'.res = "Ok")
          => CoinbaseShape(tx'[1]) /\ IsCoinbase(tx'[1])
       /\ (last'.op = "sign" /\ CoinbaseShape(tx[1]))
          => last'.res = "Ok" /\ tx' = tx
       /\ (last'.op = "verify" /\ CoinbaseShape(tx[1]))
          => last'.res = "OkTrue"]_vars

CoinbaseIdentityWitness ==
    /\ last.op = "verify"
    /\ last.res = "OkTrue"
    /\ CoinbaseShape(Held)
    /\ Held.vin[1].signature # <<>>
    /\ DOMAIN prev_txs = {}

\* Two transactions that differ at most in the signatures of their inputs.
SameButSignatures(a, b) ==
    /\ a.id = b.id
    /\ a.vout = b.vout
    /\ Len(a.vin) = Len(b.vin)
    /\ \A i \in DOMAIN a.vin :
         /\ a.vin[i].txid = b.vin[i].txid
         /\ a.vin[i].vout = b.vin[i].vout
         /\ a.vin[i].pub_key = b.vin[i].pub_key

\* The transaction with every input's signature emptied.
Unsigned(t) ==
    [t EXCEPT !.vin = [i \in DOMAIN t.vin |-> [t.vin[i] EXCEPT !.signature = <<>>]]]

\* C5: whatever sign ends with, the transaction differs from what it was at
\* most in its inputs' signatures; the id new_utxo assigned, the hash of the
\* unsigned form, is still the id of the signed transaction it returns.
SignFrame ==
    [][/\ last'.op = "sign" => SameButSignatures(tx[1], tx'[1])
       /\ (last'.op = "new_utxo" /\ last'.res = "Ok")
          => tx'[1].id = Hash(Unsigned(tx'[1]))]_vars

SignFrameWitness ==
    /\ last.op = "sign"
    /\ last.res = "Ok"
    /\ Len(Held.vin) = 2
    /\ \A i \in DOMAIN Held.vin :
         Held.vin[i].signature = Ed25519Signature(last.msgs[i], last.sk)
    /\ Held.id = Hash(Unsigned(Held))

\* Input k is the first whose lookup does not give a transaction with an id,
\* and what it gives is one with an empty id.
FirstUnresolved(t, k, prev) ==
    /\ t.vin[k].txid \in DOMAIN prev
    /\ prev[t.vin[k].txid].id = ""
    /\ \A j \in 1..(k - 1) :
         t.vin[j].txid \in DOMAIN prev /\ prev[t.vin[j].txid].id # ""

IndependentSighash ==
    (last.op \in {"sign", "verify"} /\ ~CoinbaseShape(Held))
    => /\ \A i \in DOMAIN last.msgs :
            last.msgs[i] =
              Hash(SubstituteLock(TrimCopy(Held), i, SpentLock(Held, i, prev_txs)))
       /\ \A i, j \in DOMAIN last.msgs :
            SpentLock(Held, i, prev_txs) # SpentLock(Held, j, prev_txs)
            => last.msgs[i] # last.msgs[j]

IndependentSighashWitness ==
    /\ last.op = "sign"
    /\ last.res = "Ok"
    /\ Len(Held.vin) = 2
    /\ Len(last.msgs) = 2
    /\ SpentLock(Held, 1, prev_txs) # <<>>
    /\ SpentLock(Held, 2, prev_txs) = <<>>
    /\ last.msgs[1] # last.msgs[2]

\* C10: a non-coinbase transaction whose inputs declare, and were signed
\* with, a key pair whose public-key-hash is the lock of none of the outputs
\* they spend verifies true.
VerificationGap ==
    (/\ last.op = "verify"
     /\ signedBy # 0
     /\ ~CoinbaseShape(Held)
     /\ DeclaredBy(Held, signedBy)
     /\ \A i \in DOMAIN Held.vin :
          SpentLock(Held, i, prev_txs) # HashPubKey(Held.vin[i].pub_key))
    => last.res = "OkTrue"

VerificationGapWitness ==
    /\ last.op = "verify"
    /\ last.res = "OkTrue"
    /\ signedBy # 0
    /\ Len(Held.vin) = 2
    /\ DeclaredBy(Held, signedBy)
    /\ \A i \in DOMAIN Held.vin :
         SpentLock(Held, i, prev_txs) # HashPubKey(Held.vin[i].pub_key)

====
